---- MODULE Spec2Model ----
(***************************************************************************)
(* Model of ultralytics/solutions/distance_calculation.py: the selection   *)
(* state of DistanceCalculation (selected_boxes, left_mouse_count), the    *)
(* pointer callback mouse_event_for_distance and the per-frame method      *)
(* start_process.                                                          *)
(*                                                                         *)
(* A Python list is a sequence, the insertion-ordered dict selected_boxes  *)
(* is a sequence of [id, box] entries with distinct ids, and an attribute  *)
(* that may hold None is a record [isNone, list].  A box is the 4-tuple    *)
(* <<x1, y1, x2, y2>> (box[0..3] in the source is box[1..4] here).         *)
(* The class list clss only feeds the box labels and is left out, as is    *)
(* the display block of start_process (lines 121-128), which changes no    *)
(* attribute of the object.  mouse_event_for_distance is a public method:  *)
(* it can be called in every state, also before the first frame.           *)
(*                                                                         *)
(* A distance is the real number times * sqrt(root*root + rem) / per, kept *)
(* as the record [times, root, rem, per] with root the integer part of the *)
(* square root, so that no rounding enters the model.                      *)
(***************************************************************************)
EXTENDS Integers, Sequences, FiniteSets, TLC

\* ---------------------------------------------------------------- bounds
NumIds == 3      \* track ids are 1..NumIds
NumBoxes == 2    \* the tracker reports boxes Box(0) .. Box(NumBoxes - 1)
MaxDets == 2     \* detections per frame
MaxCount == 3    \* primary clicks are delivered while left_mouse_count < MaxCount
MaxCoord == 2    \* calculate_distance is applied to centroids of (0..MaxCoord) \X (0..MaxCoord)
MaxCalibration == 2  \* and with pixels_per_meter in 1..MaxCalibration

\* ------------------------------------------------------- cv2 event codes
EVENT_MOUSEMOVE == 0
EVENT_LBUTTONDOWN == 1
EVENT_RBUTTONDOWN == 2

Events == {EVENT_MOUSEMOVE, EVENT_LBUTTONDOWN, EVENT_RBUTTONDOWN}

\* ----------------------------------------------------------------- inputs
TrackIds == 1..NumIds

\* Boxes of equal size, each overlapping the next one.
Box(i) == <<i, 0, i + 3, 2>>

BoxSet == {Box(i) : i \in 0..(NumBoxes - 1)}

\* Every pixel on or inside some box of BoxSet.
Points == (0..(NumBoxes + 2)) \X (0..2)

None == [isNone |-> TRUE, list |-> <<>>]

List(s) == [isNone |-> FALSE, list |-> s]

Detections == [box : BoxSet, id : TrackIds]

\* A frame of the tracker: detections with pairwise distinct track ids.
Frames ==
    {f \in UNION {[1..n -> Detections] : n \in 0..MaxDets} :
        \A i, j \in DOMAIN f : i # j => f[i].id # f[j].id}

\* What the tracker hands to start_process: a frame, or a result without
\* track ids.
NoTracks == [tracked |-> FALSE, dets |-> <<>>]

Tracked(f) == [tracked |-> TRUE, dets |-> f]

TrackInputs == {NoTracks} \cup {Tracked(f) : f \in Frames}

\* ------------------------------------------------------------------ state
VARIABLES
    boxes,             \* self.boxes: None or the list of the frame's boxes
    trk_ids,           \* self.trk_ids: None or the list of the frame's ids
    centroids,         \* self.centroids
    left_mouse_count,  \* self.left_mouse_count
    selected_boxes,    \* self.selected_boxes, in insertion order
    plotted,           \* plot_distance_and_line requests of the last call
    raised,            \* exception raised by the last call, "None" if none
    last,              \* the last call: its arguments and the selection
                       \* (for a pointer event also the counter) it found
    pixels_per_meter,  \* self.args["pixels_per_meter"]
    calc               \* a call of calculate_distance on its own: the two
                       \* arguments and, once it has returned, the result

vars == <<boxes, trk_ids, centroids, left_mouse_count, selected_boxes,
          plotted, raised, last, pixels_per_meter, calc>>

\* ---------------------------------------------------------------- helpers
Min(a, b) == IF a < b THEN a ELSE b

Keys(sel) == {sel[i].id : i \in DOMAIN sel}

\* self.selected_boxes[k] for a key k.
Get(sel, k) == sel[CHOOSE i \in DOMAIN sel : sel[i].id = k].box

\* self.selected_boxes[k] = v: an existing key keeps its place in the
\* insertion order, a new key goes last.
DictSet(sel, k, v) ==
    IF k \in Keys(sel)
    THEN [i \in DOMAIN sel |-> IF sel[i].id = k THEN [id |-> k, box |-> v] ELSE sel[i]]
    ELSE Append(sel, [id |-> k, box |-> v])

\* ------------------------------------------------ mouse_event_for_distance
\* Variant of Inside: the comparisons of line 61 include the edges.
Inside_Inclusive(box, x, y) == box[1] <= x /\ x <= box[3] /\ box[2] <= y /\ y <= box[4]

\* box[0] < x < box[2] and box[1] < y < box[3]
Inside(box, x, y) == box[1] < x /\ x < box[3] /\ box[2] < y /\ y < box[4]

\* Variant of SelectLoop: line 61 does not test whether the id is selected.
RECURSIVE SelectLoop_Overwrites(_, _, _, _, _, _)
SelectLoop_Overwrites(sel, bxs, ids, x, y, i) ==
    IF i > Min(Len(bxs), Len(ids))
    THEN sel
    ELSE SelectLoop_Overwrites(
            IF Inside(bxs[i], x, y) THEN DictSet(sel, ids[i], bxs[i]) ELSE sel,
            bxs, ids, x, y, i + 1)

\* The loop of lines 60-62 over zip(self.boxes, self.trk_ids), from pair i on.
RECURSIVE SelectLoop(_, _, _, _, _, _)
SelectLoop(sel, bxs, ids, x, y, i) ==
    IF i > Min(Len(bxs), Len(ids))
    THEN sel
    ELSE SelectLoop(
            IF Inside(bxs[i], x, y) /\ ids[i] \notin Keys(sel)
            THEN DictSet(sel, ids[i], bxs[i])
            ELSE sel,
            bxs, ids, x, y, i + 1)

\* Variant of LeftClickSelection: an excess click clears the selection.
LeftClickSelection_ResetsOnExcess(sel, cnt, bxs, ids, x, y) ==
    IF cnt <= 2 THEN SelectLoop(sel, bxs, ids, x, y, 1) ELSE <<>>

\* Variant of LeftClickSelection: the third click still selects.
LeftClickSelection_ThreeClicks(sel, cnt, bxs, ids, x, y) ==
    IF cnt <= 3 THEN SelectLoop(sel, bxs, ids, x, y, 1) ELSE sel

\* The selection after a left click that made the counter cnt (lines 59-62).
LeftClickSelection(sel, cnt, bxs, ids, x, y) ==
    IF cnt <= 2 THEN SelectLoop(sel, bxs, ids, x, y, 1) ELSE sel

\* zip(self.boxes, self.trk_ids) raises TypeError when either is None; the
\* counter has been incremented by then (line 58).
LeftClickRaises(cnt, bxs, ids) == cnt <= 2 /\ (bxs.isNone \/ ids.isNone)

\* Lines 57-62.
LeftButtonDown(x, y) ==
    /\ left_mouse_count < MaxCount
    /\ left_mouse_count' = left_mouse_count + 1
    /\ IF LeftClickRaises(left_mouse_count', boxes, trk_ids)
       THEN /\ raised' = "TypeError"
            /\ selected_boxes' = selected_boxes
       ELSE /\ raised' = "None"
            /\ selected_boxes' =
                 LeftClickSelection(selected_boxes, left_mouse_count',
                                    boxes.list, trk_ids.list, x, y)

\* Variant of RightButtonDown: line 66 is missing.
RightButtonDown_KeepsCount ==
    /\ selected_boxes' = <<>>
    /\ UNCHANGED left_mouse_count
    /\ raised' = "None"

\* Variant of OtherEvent: the branch of line 64 is a plain else.
OtherEvent_Resets ==
    /\ selected_boxes' = <<>>
    /\ left_mouse_count' = 0
    /\ raised' = "None"

\* Lines 64-66.
RightButtonDown ==
    /\ selected_boxes' = <<>>
    /\ left_mouse_count' = 0
    /\ raised' = "None"

\* Any other event falls through both branches.
OtherEvent ==
    /\ UNCHANGED <<selected_boxes, left_mouse_count>>
    /\ raised' = "None"

mouse_event_for_distance(event, x, y) ==
    /\ IF event = EVENT_LBUTTONDOWN THEN LeftButtonDown(x, y)
       ELSE IF event = EVENT_RBUTTONDOWN THEN RightButtonDown
       ELSE OtherEvent
    /\ plotted' = <<>>
    /\ last' = [op |-> "mouse", event |-> event, x |-> x, y |-> y,
                before |-> selected_boxes, count_before |-> left_mouse_count]
    /\ UNCHANGED <<boxes, trk_ids, centroids, pixels_per_meter, calc>>

\* ------------------------------------------------------ calculate_distance
\* Variant of PixelDistanceSq: the second difference lost its subtrahend.
PixelDistanceSq_DropsSubtrahend(c1, c2) ==
    (c1[1] - c2[1]) * (c1[1] - c2[1]) + c1[2] * c1[2]

\* The radicand of line 79; pixel_distance is its square root.
PixelDistanceSq(c1, c2) ==
    (c1[1] - c2[1]) * (c1[1] - c2[1]) + (c1[2] - c2[2]) * (c1[2] - c2[2])

\* math.sqrt(n) for an integer n >= 0: integer part and what is left of n.
Sqrt(n) ==
    LET r == CHOOSE k \in 0..n : k * k <= n /\ n < (k + 1) * (k + 1)
    IN  [root |-> r, rem |-> n - r * r]

\* Lines 79-81: (distance_m, distance_m * 1000).
calculate_distance(centroid1, centroid2) ==
    LET pixel_distance == Sqrt(PixelDistanceSq(centroid1, centroid2))
        distance_m == [times |-> 1, root |-> pixel_distance.root,
                       rem |-> pixel_distance.rem, per |-> pixels_per_meter]
    IN  <<distance_m, [distance_m EXCEPT !.times = @ * 1000]>>

\* ----------------------------------------------------------- start_process
\* solutions.extract_tracks(tracks), reduced to boxes and track ids.
extract_tracks(tracks) ==
    IF tracks.tracked
    THEN [boxes |-> List([i \in DOMAIN tracks.dets |-> tracks.dets[i].box]),
          trk_ids |-> List([i \in DOMAIN tracks.dets |-> tracks.dets[i].id])]
    ELSE [boxes |-> None, trk_ids |-> None]

\* Variant of RefreshOne: the size test of line 100 is off by one.
RefreshOne_WrongSize(sel, box, track_id) ==
    IF Len(sel) = 1 /\ track_id \in Keys(sel)
    THEN DictSet(sel, track_id, box)
    ELSE sel

\* Variant of RefreshOne: the comparison of line 102 is missing, so every
\* selected id gets the box.
RefreshOne_NoCompare(sel, box, track_id) ==
    IF Len(sel) = 2
    THEN [i \in DOMAIN sel |-> [id |-> sel[i].id, box |-> box]]
    ELSE sel

\* Variant of RefreshOne: the box is stored without looking the id up among
\* the selected ones (lines 101-102 are missing).
RefreshOne_NoLookup(sel, box, track_id) ==
    IF Len(sel) = 2 THEN DictSet(sel, track_id, box) ELSE sel

\* Lines 100-103 for one (box, track_id) pair of the frame.
RefreshOne(sel, box, track_id) ==
    IF Len(sel) = 2 /\ track_id \in Keys(sel)
    THEN DictSet(sel, track_id, box)
    ELSE sel

\* The loop of lines 97-103 over zip(self.boxes, self.trk_ids), from pair i on.
RECURSIVE RefreshLoop(_, _, _, _)
RefreshLoop(sel, bxs, ids, i) ==
    IF i > Min(Len(bxs), Len(ids))
    THEN sel
    ELSE RefreshLoop(RefreshOne(sel, bxs[i], ids[i]), bxs, ids, i + 1)

\* Variant of Centroid: half the extent of the box instead of its midpoint.
Centroid_HalfExtent(box) == <<(box[3] - box[1]) \div 2, (box[4] - box[2]) \div 2>>

\* One entry of the list of lines 106-112.
Centroid(box) == <<(box[1] + box[3]) \div 2, (box[2] + box[4]) \div 2>>

\* Lines 106-112: the centroids in the dict's insertion order.
Centroids(sel) == [i \in DOMAIN sel |-> Centroid(sel[i].box)]

\* Variant of FrameCentroids: line 119 is missing.
FrameCentroids_NoReset(sel, old) ==
    IF Len(sel) = 2 THEN Centroids(sel) ELSE old

\* self.centroids at the end of lines 105-119: assigned on line 106 when two
\* ids are selected, then emptied on line 119.
FrameCentroids(sel, old) ==
    LET assigned == IF Len(sel) = 2 THEN Centroids(sel) ELSE old
    IN  <<>>

\* Variant of DistancePlots: the size test of line 105 is >= 2.
DistancePlots_AtLeastTwo(sel) ==
    IF Len(sel) >= 2
    THEN <<[centroids |-> Centroids(sel),
            distance_m |-> calculate_distance(Centroids(sel)[1], Centroids(sel)[2])[1],
            distance_mm |-> calculate_distance(Centroids(sel)[1], Centroids(sel)[2])[2]]>>
    ELSE <<>>

\* Lines 105-117: what is handed to plot_distance_and_line.
DistancePlots(sel) ==
    IF Len(sel) = 2
    THEN <<[centroids |-> Centroids(sel),
            distance_m |-> calculate_distance(Centroids(sel)[1], Centroids(sel)[2])[1],
            distance_mm |-> calculate_distance(Centroids(sel)[1], Centroids(sel)[2])[2]]>>
    ELSE <<>>

\* Variant of start_process: the distance step (lines 105-117) runs on the
\* boxes stored before the refresh loop.
start_process_PlotsStale(tracks) ==
    /\ boxes' = extract_tracks(tracks).boxes
    /\ trk_ids' = extract_tracks(tracks).trk_ids
    /\ IF ~trk_ids'.isNone
       THEN /\ selected_boxes' = RefreshLoop(selected_boxes, boxes'.list, trk_ids'.list, 1)
            /\ plotted' = DistancePlots(selected_boxes)
            /\ centroids' = FrameCentroids(selected_boxes, centroids)
       ELSE /\ plotted' = <<>>
            /\ UNCHANGED <<selected_boxes, centroids>>
    /\ raised' = "None"
    /\ last' = [op |-> "frame", tracks |-> tracks, before |-> selected_boxes]
    /\ UNCHANGED <<left_mouse_count, pixels_per_meter, calc>>

start_process(tracks) ==
    /\ boxes' = extract_tracks(tracks).boxes
    /\ trk_ids' = extract_tracks(tracks).trk_ids
    /\ IF ~trk_ids'.isNone
       THEN /\ selected_boxes' = RefreshLoop(selected_boxes, boxes'.list, trk_ids'.list, 1)
            /\ plotted' = DistancePlots(selected_boxes')
            /\ centroids' = FrameCentroids(selected_boxes', centroids)
       ELSE /\ plotted' = <<>>
            /\ UNCHANGED <<selected_boxes, centroids>>
    /\ raised' = "None"
    /\ last' = [op |-> "frame", tracks |-> tracks, before |-> selected_boxes]
    /\ UNCHANGED <<left_mouse_count, pixels_per_meter, calc>>

\* ---------------------------------------------------------- specification
\* Lines 31-39.
NewObject ==
    /\ boxes = None
    /\ trk_ids = None
    /\ centroids = <<>>
    /\ left_mouse_count = 0
    /\ selected_boxes = <<>>
    /\ plotted = <<>>
    /\ raised = "None"
    /\ last = [op |-> "init", before |-> <<>>]

\* A new object calibrated at 10 pixels per meter; calculate_distance is not
\* called on its own.
Init ==
    /\ NewObject
    /\ pixels_per_meter = 10
    /\ calc = [centroid1 |-> <<0, 0>>, centroid2 |-> <<0, 0>>, returned |-> <<>>]

MouseEvent == \E event \in Events, p \in Points : mouse_event_for_distance(event, p[1], p[2])

Frame == \E tracks \in TrackInputs : start_process(tracks)

Next == Frame \/ MouseEvent

Spec == Init /\ [][Next]_vars

\* --------------------------------------- calculate_distance on its own
Grid == (0..MaxCoord) \X (0..MaxCoord)

Calibrations == 1..MaxCalibration

\* A new object with any calibration, and any two centroids of the grid as
\* the arguments of a call of calculate_distance.
DistInit ==
    /\ NewObject
    /\ pixels_per_meter \in Calibrations
    /\ calc \in [centroid1 : Grid, centroid2 : Grid, returned : {<<>>}]

\* The call returns.
CalculateDistance ==
    /\ calc.returned = <<>>
    /\ calc' = [calc EXCEPT !.returned =
                   <<calculate_distance(calc.centroid1, calc.centroid2)>>]
    /\ UNCHANGED <<boxes, trk_ids, centroids, left_mouse_count, selected_boxes,
                   plotted, raised, last, pixels_per_meter>>

DistNext == CalculateDistance

DistSpec == DistInit /\ [][DistNext]_vars

\* ------------------------------------------- the two-object scenario
\* Track 1 in box (0, 0, 10, 10) and track 2 in box (100, 0, 110, 10).
ScenarioFrame ==
    <<[box |-> <<0, 0, 10, 10>>, id |-> 1], [box |-> <<100, 0, 110, 10>>, id |-> 2]>>

\* Pixels inside, on the edge of and outside the two boxes.
ScenarioPoints == {0, 5, 10, 50, 100, 105, 110} \X {0, 5, 10}

ScenarioFrameCall == start_process(Tracked(ScenarioFrame))

ScenarioMouseEvent ==
    \E event \in Events, p \in ScenarioPoints : mouse_event_for_distance(event, p[1], p[2])

ScenarioNext == ScenarioFrameCall \/ ScenarioMouseEvent

\* Every frame holds the two detections; Init sets 10 pixels per meter.
ScenarioSpec == Init /\ [][ScenarioNext]_vars

\* ------------------------------------------------------- calls and cases
LeftClicked == last.op = "mouse" /\ last.event = EVENT_LBUTTONDOWN

RightClicked == last.op = "mouse" /\ last.event = EVENT_RBUTTONDOWN

FrameProcessed == last.op = "frame"

\* The track ids of the detections the object currently holds.
CurrentIds == {trk_ids.list[i] : i \in DOMAIN trk_ids.list}

\* Pair i of the current detections is hit by (x, y) and not selected in sel.
HitsUnselected(i, x, y, sel) ==
    /\ Inside(boxes.list[i], x, y)
    /\ trk_ids.list[i] \notin Keys(sel)

\* ----------------------------------------------------------------- claims

\* C1: in every reachable state selected_boxes holds at most 2 track ids.
C1_AtMostTwoSelected == Len(selected_boxes) <= 2

\* C2: after a secondary (right-button) click, from any state and at any
\* point, the selection is empty and left_mouse_count is 0.
C2_RightClickResets ==
    RightClicked => selected_boxes = <<>> /\ left_mouse_count = 0

\* A right click that found two selected ids and a counter above 2.
C2_Witness ==
    /\ RightClicked
    /\ Len(last.before) = 2
    /\ last.count_before > 2
    /\ selected_boxes = <<>>
    /\ left_mouse_count = 0

\* C3: when two track ids are selected, a primary click at any point leaves
\* the selection (ids and stored boxes) unchanged.
C3_ClickWhenCompleteIgnored ==
    [][(Len(selected_boxes) = 2 /\ LeftClicked') => selected_boxes' = selected_boxes]_vars

\* C4: when fewer than two ids are selected and a primary click lands inside
\* the box of a current detection whose id is not selected, that id is in the
\* selection, mapped to that box, right after the click.
C4_HitSelects ==
    [][\A i \in DOMAIN trk_ids.list :
          (/\ LeftClicked'
           /\ Len(selected_boxes) < 2
           /\ HitsUnselected(i, last'.x, last'.y, selected_boxes))
          => /\ trk_ids.list[i] \in Keys(selected_boxes')
             /\ Get(selected_boxes', trk_ids.list[i]) = boxes.list[i]]_vars

\* C5 as stated: after a frame call every id selected before the call that
\* appears in the frame has the frame's box stored, for every selection size.
C5_RefreshEverySize ==
    [][FrameProcessed' =>
          \A i \in DOMAIN trk_ids'.list :
              trk_ids'.list[i] \in Keys(selected_boxes)
              => /\ trk_ids'.list[i] \in Keys(selected_boxes')
                 /\ Get(selected_boxes', trk_ids'.list[i]) = boxes'.list[i]]_vars

\* C5 amended: after a frame call made while exactly two ids are selected,
\* every selected id that appears in the frame has the frame's box stored;
\* a frame call made with any other number of selected ids leaves the
\* selection as it was.
C5_RefreshWhenTwo ==
    [][FrameProcessed' =>
          IF Len(selected_boxes) = 2
          THEN \A i \in DOMAIN trk_ids'.list :
                  trk_ids'.list[i] \in Keys(selected_boxes)
                  => /\ trk_ids'.list[i] \in Keys(selected_boxes')
                     /\ Get(selected_boxes', trk_ids'.list[i]) = boxes'.list[i]
          ELSE selected_boxes' = selected_boxes]_vars

\* A frame that moved the box of one of two selected ids.
C5_Witness ==
    /\ FrameProcessed
    /\ Len(last.before) = 2
    /\ \E k \in Keys(last.before) \cap CurrentIds :
          /\ Get(last.before, k) # Get(selected_boxes, k)
          /\ \E i \in DOMAIN trk_ids.list :
                trk_ids.list[i] = k /\ boxes.list[i] = Get(selected_boxes, k)

\* C6: a selected id absent from the detections of a processed frame stays
\* selected with its stored box unchanged; no frame call removes a selected id.
C6_AbsentIdRetained ==
    [][FrameProcessed' =>
          \A k \in Keys(selected_boxes) :
              /\ k \in Keys(selected_boxes')
              /\ k \notin {trk_ids'.list[i] : i \in DOMAIN trk_ids'.list}
                 => Get(selected_boxes', k) = Get(selected_boxes, k)]_vars

\* A frame that refreshed one of two selected ids while the other, absent
\* from the frame, kept its box.
C6_Witness ==
    /\ FrameProcessed
    /\ Len(last.before) = 2
    /\ \E k \in Keys(last.before) \cap CurrentIds :
          Get(last.before, k) # Get(selected_boxes, k)
    /\ \E k \in Keys(last.before) \ CurrentIds :
          /\ k \in Keys(selected_boxes)
          /\ Get(last.before, k) = Get(selected_boxes, k)

\* C7 as stated: a frame call emits a distance annotation exactly when two
\* ids are selected, whatever the frame's detections are.
C7_PlotIffTwoSelected ==
    [][FrameProcessed' => (plotted' # <<>> <=> Len(selected_boxes) = 2)]_vars

\* C7 amended: a frame call whose tracker result carries track ids (an empty
\* list included) emits a distance annotation exactly when two ids are
\* selected; a call whose result carries no track ids emits none.
C7_PlotIffTwoSelectedAndTracked ==
    [][FrameProcessed' =>
          (plotted' # <<>> <=> (Len(selected_boxes) = 2 /\ ~trk_ids'.isNone))]_vars

\* A frame with an empty detection list that emitted the annotation of the
\* two stored boxes.
C7_Witness ==
    /\ FrameProcessed
    /\ ~trk_ids.isNone
    /\ trk_ids.list = <<>>
    /\ Len(last.before) = 2
    /\ Len(plotted) = 1
    /\ plotted[1].centroids = Centroids(last.before)

\* C8: no pointer event and no frame call raises an error.
C8_NothingRaises == raised = "None"

\* C9 as stated: after a primary click that raises left_mouse_count above 2,
\* the selection is empty.
C9_ExcessClickResets ==
    (LeftClicked /\ left_mouse_count > 2) => selected_boxes = <<>>

\* C9 amended: the selection is emptied only by a secondary click; a primary
\* click that raises left_mouse_count above 2 does not empty it.
C9_OnlyRightClickEmpties ==
    [][(selected_boxes # <<>> /\ selected_boxes' = <<>>) => RightClicked']_vars

\* A primary click that raised the counter above 2 and found a selection.
C9_Witness ==
    /\ LeftClicked
    /\ left_mouse_count > 2
    /\ last.before # <<>>
    /\ selected_boxes # <<>>

\* C10: a primary click that raises left_mouse_count above 2 leaves the
\* selection unchanged; every primary click adds one to the counter and only
\* a secondary click lowers it, so a primary click that changes the selection
\* is the first or second since the last secondary click.
C10_ExcessClicksNoOp ==
    [][/\ (LeftClicked' /\ left_mouse_count' > 2) => selected_boxes' = selected_boxes
       /\ LeftClicked' => left_mouse_count' = left_mouse_count + 1
       /\ left_mouse_count' # left_mouse_count => (LeftClicked' \/ RightClicked')
       /\ left_mouse_count' < left_mouse_count => (RightClicked' /\ left_mouse_count' = 0)
       /\ (LeftClicked' /\ selected_boxes' # selected_boxes)
          => left_mouse_count < 2]_vars

\* An excess primary click inside the box of a current detection that is not
\* selected, with fewer than two ids selected, which selected nothing.
C10_Witness ==
    /\ LeftClicked
    /\ left_mouse_count > 2
    /\ Len(last.before) < 2
    /\ \E i \in DOMAIN trk_ids.list : HitsUnselected(i, last.x, last.y, last.before)
    /\ selected_boxes = last.before

\* A pointer event that is neither a left- nor a right-button-down event.
OtherEventDelivered ==
    /\ last.op = "mouse"
    /\ last.event # EVENT_LBUTTONDOWN
    /\ last.event # EVENT_RBUTTONDOWN

\* C11: a pointer event that is neither primary nor secondary leaves the
\* selection and the click counter unchanged, in every state.
C11_OtherEventNoOp ==
    [][OtherEventDelivered' =>
          /\ selected_boxes' = selected_boxes
          /\ left_mouse_count' = left_mouse_count]_vars

\* A mouse move that found a selection and a counter above 0 and left both.
C11_Witness ==
    /\ OtherEventDelivered
    /\ last.before # <<>>
    /\ last.count_before > 0
    /\ selected_boxes = last.before
    /\ left_mouse_count = last.count_before

\* C12: calculate_distance(a, b) and calculate_distance(b, a) return the same
\* (meters, millimeters) pair, and the squared pixel distance is the same for
\* both orders, for all centroids a and b of the grid.
C12_DistanceSymmetric ==
    calc.returned # <<>> =>
        /\ calc.returned[1] = calculate_distance(calc.centroid2, calc.centroid1)
        /\ PixelDistanceSq(calc.centroid1, calc.centroid2)
              = PixelDistanceSq(calc.centroid2, calc.centroid1)

\* A returned call on two centroids that differ in both coordinates, whose
\* pixel distance is no integer.
C12_Witness ==
    /\ calc.returned # <<>>
    /\ calc.centroid1[1] # calc.centroid2[1]
    /\ calc.centroid1[2] # calc.centroid2[2]
    /\ calc.returned[1][1].rem > 0
    /\ calc.returned[1][2].times = 1000 * calc.returned[1][1].times

\* C13: in the two-object scenario at 10 pixels per meter, a frame processed
\* with both tracks selected emits the centroids (5, 5) of track 1 and
\* (105, 5) of track 2, the pixel distance 100 and the distance 10 m, which
\* is 10000 mm.
C13_ScenarioDistance ==
    (FrameProcessed /\ Keys(last.before) = {1, 2}) =>
        /\ Len(plotted) = 1
        /\ \A i \in 1..2 :
              plotted[1].centroids[i] =
                 IF selected_boxes[i].id = 1 THEN <<5, 5>> ELSE <<105, 5>>
        /\ plotted[1].distance_m.root = 100
        /\ plotted[1].distance_m.rem = 0
        /\ plotted[1].distance_m.times * plotted[1].distance_m.root
              = 10 * plotted[1].distance_m.per
        /\ plotted[1].distance_mm.rem = 0
        /\ plotted[1].distance_mm.times * plotted[1].distance_mm.root
              = 10000 * plotted[1].distance_mm.per

\* A frame processed after one click inside each box.
C13_Witness ==
    /\ FrameProcessed
    /\ Keys(last.before) = {1, 2}
    /\ left_mouse_count = 2
    /\ Len(plotted) = 1
    /\ pixels_per_meter = 10

\* C14: a single primary click adds at most one track id to the selection,
\* also when the click point lies inside several overlapping boxes.
C14_ClickAddsAtMostOne ==
    [][LeftClicked' => Len(selected_boxes') <= Len(selected_boxes) + 1]_vars

\* C15: in a frame call made while two ids are selected and both appear in
\* the frame, the centroids of the emitted distance annotation are the
\* midpoints of the frame's boxes of the two ids, in selection order.
C15_DistanceUsesRefreshedBoxes ==
    [][(/\ FrameProcessed'
        /\ Len(selected_boxes) = 2
        /\ Keys(selected_boxes) \subseteq {trk_ids'.list[j] : j \in DOMAIN trk_ids'.list})
       => /\ Len(plotted') = 1
          /\ \A i \in 1..2 : \A j \in DOMAIN trk_ids'.list :
                trk_ids'.list[j] = selected_boxes[i].id
                => plotted'[1].centroids[i] = Centroid(boxes'.list[j])]_vars

\* A frame that moved both selected boxes and emitted the midpoints of the
\* new boxes, which are not the midpoints of the boxes stored before.
C15_Witness ==
    /\ FrameProcessed
    /\ Len(last.before) = 2
    /\ Keys(last.before) \subseteq CurrentIds
    /\ Len(plotted) = 1
    /\ \A i \in 1..2 :
          /\ plotted[1].centroids[i] # Centroid(last.before[i].box)
          /\ \E j \in DOMAIN trk_ids.list :
                /\ trk_ids.list[j] = last.before[i].id
                /\ plotted[1].centroids[i] = Centroid(boxes.list[j])

\* C16: self.centroids is empty after every frame call, whatever the
\* selection and the detections, hence in every state in which a pointer
\* event or the next frame call can occur.
C16_CentroidsNotCarried == centroids = <<>>

\* A frame call that computed two centroids for the annotation and kept none.
C16_Witness ==
    /\ FrameProcessed
    /\ Len(last.before) = 2
    /\ Len(plotted) = 1
    /\ Len(plotted[1].centroids) = 2
    /\ centroids = <<>>

\* C17: a frame call changes neither the set of selected track ids nor
\* left_mouse_count; only pointer events add or remove selected ids.
C17_FrameKeepsKeysAndCount ==
    [][/\ FrameProcessed' =>
             /\ Keys(selected_boxes') = Keys(selected_boxes)
             /\ Len(selected_boxes') = Len(selected_boxes)
             /\ left_mouse_count' = left_mouse_count
       /\ Keys(selected_boxes') # Keys(selected_boxes) => last'.op = "mouse"]_vars

\* A frame with an unselected id beside a selected one, processed while two
\* ids were selected and the counter was above 0: the refresh ran and the
\* unselected id was not added.
C17_Witness ==
    /\ FrameProcessed
    /\ Len(last.before) = 2
    /\ left_mouse_count > 0
    /\ CurrentIds \ Keys(last.before) # {}
    /\ CurrentIds \cap Keys(last.before) # {}
    /\ selected_boxes # last.before
    /\ Keys(selected_boxes) = Keys(last.before)

\* C18: the object holds the detections of the most recently processed frame
\* (a frame call stores them, a pointer event leaves them alone); every
\* (track id, box) pair a primary click adds is one of these detections, and
\* a click changes neither the stored box nor the place of an id that is
\* already selected.
C18_ClickUsesLatestFrame ==
    [][/\ FrameProcessed' =>
             /\ trk_ids'.isNone = ~last'.tracks.tracked
             /\ Len(boxes'.list) = Len(last'.tracks.dets)
             /\ Len(trk_ids'.list) = Len(last'.tracks.dets)
             /\ \A j \in DOMAIN last'.tracks.dets :
                   /\ boxes'.list[j] = last'.tracks.dets[j].box
                   /\ trk_ids'.list[j] = last'.tracks.dets[j].id
       /\ last'.op = "mouse" => (boxes' = boxes /\ trk_ids' = trk_ids)
       /\ LeftClicked' =>
             /\ Len(selected_boxes') >= Len(selected_boxes)
             /\ \A i \in DOMAIN selected_boxes' :
                   IF i <= Len(selected_boxes)
                   THEN selected_boxes'[i] = selected_boxes[i]
                   ELSE \E j \in DOMAIN trk_ids.list :
                           /\ j \in DOMAIN boxes.list
                           /\ trk_ids.list[j] = selected_boxes'[i].id
                           /\ boxes.list[j] = selected_boxes'[i].box]_vars

\* A click inside the current boxes of a selected and of an unselected id:
\* the unselected id was added with its current box, the selected id kept the
\* older box it was stored with.
C18_Witness ==
    /\ LeftClicked
    /\ Len(selected_boxes) > Len(last.before)
    /\ \E j \in DOMAIN trk_ids.list :
          /\ trk_ids.list[j] \in Keys(last.before)
          /\ Inside(boxes.list[j], last.x, last.y)
          /\ boxes.list[j] # Get(last.before, trk_ids.list[j])
          /\ Get(selected_boxes, trk_ids.list[j]) = Get(last.before, trk_ids.list[j])
    /\ \E j \in DOMAIN trk_ids.list :
          /\ trk_ids.list[j] \notin Keys(last.before)
          /\ trk_ids.list[j] \in Keys(selected_boxes)
          /\ Get(selected_boxes, trk_ids.list[j]) = boxes.list[j]

\* C19: a primary click selects a detection only if the point is strictly
\* inside its box: x1 < x < x2 and y1 < y < y2; a click on any of the four
\* edges does not select the box.
C19_HitTestStrict ==
    [][LeftClicked' =>
          \A j \in DOMAIN trk_ids.list :
              (trk_ids.list[j] \notin Keys(selected_boxes)
               /\ trk_ids.list[j] \in Keys(selected_boxes'))
              => /\ boxes.list[j][1] < last'.x
                 /\ last'.x < boxes.list[j][3]
                 /\ boxes.list[j][2] < last'.y
                 /\ last'.y < boxes.list[j][4]]_vars

\* One of the first two clicks, on the right edge of the box of an unselected
\* detection and strictly inside the box of another: the second was selected,
\* the first was not.
C19_Witness ==
    /\ LeftClicked
    /\ left_mouse_count <= 2
    /\ \E j \in DOMAIN trk_ids.list :
          /\ last.x = boxes.list[j][3]
          /\ boxes.list[j][2] < last.y
          /\ last.y < boxes.list[j][4]
          /\ trk_ids.list[j] \notin Keys(selected_boxes)
    /\ \E j \in DOMAIN trk_ids.list :
          /\ trk_ids.list[j] \notin Keys(last.before)
          /\ trk_ids.list[j] \in Keys(selected_boxes)

====
